---- MODULE Spec2Model ----
(***************************************************************************)
(* BCB Pix Normativas Monitor v3 (src/monitor.py).                         *)
(*                                                                         *)
(* One run of the monitor loads state.json, fetches the candidate          *)
(* normativos (listing page, or sequential probing when the listing gives  *)
(* nothing), filters out the ids already seen, processes the new ones in   *)
(* reversed order (extract text, summarise, send WhatsApp, append id) and  *)
(* finally saves the last 500 seen ids with a timestamp.                   *)
(*                                                                         *)
(* A number string ("407") is the sequence of its digits (<<4, 0, 7>>).    *)
(* The id f"ResolucaoBCB-{numero}" is the record of its literal prefix and *)
(* the digits that follow it.                                              *)
(***************************************************************************)
EXTENDS Integers, Sequences, FiniteSets, TLC

VARIABLES
    stateFile,      \* state.json: [exists, json, bytes, seen_ids, last_check]
    published,      \* numbers whose detail page exists on the BCB portal
    clock,          \* wall clock in seconds, advanced once per started run
    prevFailed,     \* the last finished live run: the ids whose processing
                    \* raised, and whether its candidates came from probing
    pc,             \* pc[p]: position of process p in run()
    FORCE_RESET,    \* FORCE_RESET[p]: the flag process p was started with
    seen_ids,       \* seen_ids[p]: the in-memory list of run()
    normativos,     \* normativos[p]: the candidates
    novos,          \* novos[p]: the candidates whose id is not in seen_ids
    done,           \* done[p]: how many of reversed(novos) are finished
    texto,          \* texto[p]: extracted text of the item in progress
    contexto,       \* contexto[p]: what the prompt of the item in progress embeds
    seen0,          \* seen0[p]: seen_ids as it was right after loading
    file0,          \* file0[p]: state.json as it was when the run started
    primary,        \* primary[p]: what the listing page alone yielded
    examined,       \* examined[p]: how many rows of the listing were looked at
    probeErrs,      \* probeErrs[p]: probed numbers whose request raised
    trace,          \* trace[p]: the calls made by this run, in order
    overlapped,     \* whether a run was ever started while another was running
    reads,          \* reads[p]: state.json as each load_state() of the run found
                    \* it, in order (lines 270, 141, 293)
    state,          \* state[p]: the dict state of run() (lines 270, 293-295)
    msgpc,          \* the next step of the message: "montar" or "enviar"
    mensagem,       \* the message montar_mensagem composed last
    body,           \* the body handed to the Twilio client last
    fetchIn,        \* the page, state.json and portal of the last fetch call
    fetchOut        \* what that call did and returned

vars == <<stateFile, published, clock, prevFailed, pc, FORCE_RESET, seen_ids,
          normativos, novos, done, texto, contexto, seen0, file0, primary, examined,
          probeErrs,
          trace, overlapped, reads, state, msgpc, mensagem, body, fetchIn, fetchOut>>

runVars == <<stateFile, published, clock, prevFailed, pc, FORCE_RESET, seen_ids,
             normativos, novos, done, texto, contexto, seen0, file0, primary, examined,
          probeErrs,
             trace, overlapped, reads, state>>

msgVars == <<msgpc, mensagem, body>>

fetchVars == <<fetchIn, fetchOut>>

----------------------------------------------------------------------------
(* Bounds of the model *)

\* number of runs started in one behaviour
MaxRuns == 2

\* rows of a short listing page
MaxRows == 2

\* how far around the 1500 limit the lengths of the composed messages go
Margin == 2

\* rows of a long listing page beyond the rows the code looks at
ExtraRows == 2

----------------------------------------------------------------------------
(* Program constants *)

\* rows[:20]
RowLimit == 20

\* seen_ids[-500:]
MaxSeen == 500

\* ultimo_numero default
BaselineNumero == 429

\* range(ultimo_numero + 1, ultimo_numero + 6)
ProbeCount == 5

\* mensagem[:1500]
MaxBody == 1500

\* normativo['titulo'][:100]
MaxTitulo == 100

\* A time is [second, microsecond]; its microsecond is 0 or not (1).

\* last_check of a state that was never saved (None): no time, the clock
\* starts at second 1
None == [second |-> 0, microsecond |-> 0]

\* the runs of the program that may exist at once
Procs == {1, 2}

----------------------------------------------------------------------------
(* Strings *)

Digits == 0..9

IsDigit(c) == c \in Digits

\* Python s[:n]
Take(s, n) == SubSeq(s, 1, IF Len(s) < n THEN Len(s) ELSE n)

\* Python s[-n:]
LastN(s, n) == IF Len(s) <= n THEN s ELSE SubSeq(s, Len(s) - n + 1, Len(s))

\* Python reversed(s)
Reversed(s) == [i \in 1..Len(s) |-> s[Len(s) + 1 - i]]

InSeq(x, s) == \E i \in 1..Len(s) : s[i] = x

\* str(n) for n >= 0
RECURSIVE StrOf(_)
StrOf(n) == IF n < 10 THEN <<n>> ELSE StrOf(n \div 10) \o <<n % 10>>

\* int(s) for a string of digits
RECURSIVE IntOf(_)
IntOf(s) ==
    IF s = <<>> THEN 0 ELSE 10 * IntOf(SubSeq(s, 1, Len(s) - 1)) + s[Len(s)]

\* the longest run of digits ending a sequence of characters
RECURSIVE DigitSuffix(_)
DigitSuffix(s) ==
    IF s = <<>> \/ ~IsDigit(s[Len(s)]) THEN <<>>
    ELSE DigitSuffix(SubSeq(s, 1, Len(s) - 1)) \o <<s[Len(s)]>>

\* re.search(r"(\d+)$", sid) on an id: the prefix ends with "-", so the match
\* is the run of digits ending the number part; <<>> when there is no match
TrailingDigits(sid) == DigitSuffix(sid.numero)

----------------------------------------------------------------------------
(* Items *)

\* f"ResolucaoBCB-{numero}"
IdOf(numero) == [prefix |-> "ResolucaoBCB-", numero |-> numero]

Normativo(numero) == [id |-> IdOf(numero), numero |-> numero]

NORMATIVOS_CONHECIDOS ==
    << [id |-> [prefix |-> "ResolucaoBCB-", numero |-> <<4, 0, 7>>],
         numero |-> <<4, 0, 7>>],
       [id |-> [prefix |-> "ResolucaoBCB-", numero |-> <<4, 0, 3>>],
         numero |-> <<4, 0, 3>>] >>

Ids(items) == [i \in 1..Len(items) |-> items[i].id]

----------------------------------------------------------------------------
(* state.json *)

\* state.json is [exists, json, bytes, seen_ids, last_check]: json tells whether
\* the content parses; seen_ids and last_check are what it parses to; bytes is
\* the size of a content that does not parse (0 for one that does, and for the
\* empty content open(..., "w") leaves until the text is written)
NoFile ==
    [exists |-> FALSE, json |-> TRUE, bytes |-> 0, seen_ids |-> <<>>,
     last_check |-> None]

\* json.loads(STATE_FILE.read_text()) raises (json.JSONDecodeError)
load_state_raises(file) == file.exists /\ ~file.json

\* load_state() when it returns: the file's content, or the default when
\* there is no file
load_state(file) ==
    IF file.exists
    THEN [seen_ids |-> file.seen_ids, last_check |-> file.last_check]
    ELSE [seen_ids |-> <<>>, last_check |-> None]

\* save_state(state): the file once the text is written
save_state(st) ==
    [exists |-> TRUE, json |-> TRUE, bytes |-> 0, seen_ids |-> st.seen_ids,
     last_check |-> st.last_check]

----------------------------------------------------------------------------
(* The listing page *)

\* A row of the listing: whether it has a link, the digits the href pattern
\* captures and the digits the link-text pattern captures (<<>>: no match).
NoLinkRow == [link |-> FALSE, href |-> <<>>, texto |-> <<>>]
LinkRow(href, text) == [link |-> TRUE, href |-> href, texto |-> text]

\* one row of fetch_latest_normativos: the numero, or <<>> when the row is skipped
RowNumero(row) ==
    IF ~row.link THEN <<>>
    ELSE IF row.href # <<>> THEN row.href
    ELSE row.texto

\* the loop over rows of fetch_latest_normativos
RECURSIVE ParseRows(_)
ParseRows(rows) ==
    IF rows = <<>> THEN <<>>
    ELSE (IF RowNumero(Head(rows)) = <<>> THEN <<>>
          ELSE <<Normativo(RowNumero(Head(rows)))>>) \o ParseRows(Tail(rows))

\* a listing strategy that looks at every row of the page
ListingNormativosAll(rows) == ParseRows(rows)

\* the listing strategy of fetch_latest_normativos
ListingNormativos(rows) == ParseRows(Take(rows, RowLimit))

----------------------------------------------------------------------------
(* Sequential probing *)

\* numeros_vistos of check_sequential_normativos: the number ending each id,
\* for the ids that end with digits
NumerosVistos(ids) ==
    { IntOf(TrailingDigits(ids[i])) :
        i \in { j \in 1..Len(ids) : TrailingDigits(ids[j]) # <<>> } }

\* max(numeros_vistos) of a non-empty collection
Max(S) == CHOOSE x \in S : \A y \in S : y <= x

\* a probing that starts after the number of the id recorded last
UltimoNumeroLast(ids) ==
    IF ids # <<>> THEN IntOf(TrailingDigits(ids[Len(ids)])) ELSE BaselineNumero

\* ultimo_numero = max(numeros_vistos) if numeros_vistos else 429
UltimoNumero(ids) ==
    LET numeros_vistos == NumerosVistos(ids)
    IN  IF numeros_vistos # {} THEN Max(numeros_vistos) ELSE BaselineNumero

\* the numbers check_sequential_normativos requests, in the order of its loop
ProbedNumeros(ids) ==
    LET ultimo_numero == UltimoNumero(ids)
    IN  [i \in 1..ProbeCount |-> ultimo_numero + i]

\* range(ultimo_numero + 1, ultimo_numero + 6)
ProbeWindow(ids) ==
    LET ultimo_numero == UltimoNumero(ids)
    IN  (ultimo_numero + 1)..(ultimo_numero + ProbeCount)

\* the item check_sequential_normativos appends for num: both the id
\* f"ResolucaoBCB-{num}" and the numero str(num) are formatted from the integer
ProbedNormativo(num) ==
    [id |-> [prefix |-> "ResolucaoBCB-", numero |-> StrOf(num)], numero |-> StrOf(num)]

\* the loop of check_sequential_normativos over num = from..to: an item for
\* each number whose page exists and whose requests did not raise
RECURSIVE ProbeFrom(_, _, _, _)
ProbeFrom(from, to, pages, errs) ==
    IF from > to THEN <<>>
    ELSE (IF from \in pages /\ from \notin errs
          THEN <<ProbedNormativo(from)>> ELSE <<>>)
         \o ProbeFrom(from + 1, to, pages, errs)

\* check_sequential_normativos(): reads state.json itself
check_sequential_normativos(file, pages, errs) ==
    LET ultimo_numero == UltimoNumero(load_state(file).seen_ids)
    IN  ProbeFrom(ultimo_numero + 1, ultimo_numero + ProbeCount, pages, errs)

\* a fetch that probes whatever the listing gave
UseFallbackAlways(listed) == TRUE

\* if not normativos: normativos = await check_sequential_normativos()
UseFallback(listed) == listed = <<>>

\* fetch_latest_normativos() once the listing request has succeeded;
\* sequential is what check_sequential_normativos() returns if it is called
fetch_latest_normativos(rows, sequential) ==
    LET listed == ListingNormativos(rows)
    IN  IF UseFallback(listed) THEN sequential ELSE listed

----------------------------------------------------------------------------
(* run() *)

\* a filter that lets every fetched item through
NovosUnfiltered(items, seen) == items

\* novos = [n for n in normativos if n["id"] not in seen_ids]
RECURSIVE Novos(_, _)
Novos(items, seen) ==
    IF items = <<>> THEN <<>>
    ELSE (IF InSeq(Head(items).id, seen) THEN <<>> ELSE <<Head(items)>>)
         \o Novos(Tail(items), seen)

\* a loop that walks novos in fetch order
ProcessingOrderAsFetched(items) == items

\* for normativo in reversed(novos)
ProcessingOrder(items) == Reversed(items)

\* a truncation that keeps the oldest entries
TruncatedHead(seen) == Take(seen, MaxSeen)

\* state["seen_ids"] = seen_ids[-500:]
Truncated(seen) == LastN(seen, MaxSeen)

----------------------------------------------------------------------------
(* Inputs *)

\* the digits the patterns capture in the rows of the modelled listings:
\* (\d+) takes them as the page writes them, leading zeros included
RowNumeros == { <<1>>, <<5, 0, 1>>, <<0, 5, 0, 1>> }

\* rows without a link, without a number, with a number in the href, in the
\* link text, or in both
Rows ==
    { NoLinkRow, LinkRow(<<>>, <<>>), LinkRow(<<1>>, <<5, 0, 1>>) }
    \cup { LinkRow(n, <<>>) : n \in RowNumeros }
    \cup { LinkRow(<<>>, n) : n \in { <<5, 0, 1>> } }

RECURSIVE SeqsUpTo(_, _)
SeqsUpTo(S, n) ==
    IF n = 0 THEN { <<>> }
    ELSE SeqsUpTo(S, n - 1)
         \cup { Append(s, x) : s \in { t \in SeqsUpTo(S, n - 1) : Len(t) = n - 1 },
                               x \in S }

\* RowLimit - 1 rows without a link: what follows them straddles rows[:20]
Padding == [i \in 1..(RowLimit - 1) |-> NoLinkRow]

\* the listing pages: every short page, and long pages of linkless rows
\* followed by two numbered rows
Listings ==
    SeqsUpTo(Rows, MaxRows)
    \cup { Padding \o <<LinkRow(a, <<>>), LinkRow(b, <<>>)>> : a, b \in RowNumeros }

\* the detail pages that exist on the portal
PageNumeros == { 430, 431, 432, 501 }

\* seen_ids after the runs that notified numbers 1..k in publication order
HistoryOf(k) == SubSeq([i \in 1..k |-> IdOf(StrOf(i))], 1, k)

\* state.json when the program starts: absent, or left by earlier runs
InitFiles ==
    { NoFile }
    \cup { save_state([seen_ids |-> HistoryOf(k),
                        last_check |-> [second |-> 1, microsecond |-> 1]]) :
             k \in { MaxSeen - 1, MaxSeen } }

----------------------------------------------------------------------------
(* The calls a run makes *)

NoId == IdOf(<<>>)

Event(op, id, ok) == [op |-> op, id |-> id, ok |-> ok]

Idle == { "idle", "done", "crashed" }

\* the item the loop of run() is at
Current(p) == ProcessingOrder(novos[p])[done[p] + 1]

\* where run() goes once done items of the loop are finished
AfterItem(p, d) == IF d < Len(novos[p]) THEN "extract" ELSE "persist"

\* ids whose processing raised in the run (log.error, line 290)
FailedIds(tr) == { tr[i].id : i \in { j \in 1..Len(tr) : tr[j].op = "log_error" } }

\* the state before any run, over a state.json and a portal
InitOver(file, pages) ==
    /\ stateFile = file
    /\ published = pages
    /\ clock = 1
    /\ prevFailed = [ids |-> {}, probed |-> FALSE]
    /\ pc = [p \in Procs |-> "idle"]
    /\ overlapped = FALSE
    /\ reads = [p \in Procs |-> <<>>]
    /\ state = [p \in Procs |-> load_state(NoFile)]
    /\ FORCE_RESET = [p \in Procs |-> FALSE]
    /\ seen_ids = [p \in Procs |-> <<>>]
    /\ normativos = [p \in Procs |-> <<>>]
    /\ novos = [p \in Procs |-> <<>>]
    /\ done = [p \in Procs |-> 0]
    /\ texto = [p \in Procs |-> ""]
    /\ contexto = [p \in Procs |-> ""]
    /\ seen0 = [p \in Procs |-> <<>>]
    /\ file0 = [p \in Procs |-> NoFile]
    /\ primary = [p \in Procs |-> <<>>]
    /\ examined = [p \in Procs |-> 0]
    /\ probeErrs = [p \in Procs |-> {}]
    /\ trace = [p \in Procs |-> <<>>]
    /\ msgpc = "montar"
    /\ mensagem = <<>>
    /\ body = <<>>
    /\ fetchIn = [rows |-> <<>>, file |-> NoFile, pages |-> {}, errs |-> {}]
    /\ fetchOut = [called |-> FALSE, normativos |-> <<>>, examined |-> 0,
                   fallback |-> FALSE, heads |-> <<>>]

Init == \E file \in InitFiles : InitOver(file, PageNumeros)

\* run(), lines 262-271 with FORCE_RESET false: load the state
BeginLive(p) ==
    /\ pc[p] \in Idle
    /\ clock <= MaxRuns
    /\ ~load_state_raises(stateFile)
    /\ reads' = [reads EXCEPT ![p] = <<stateFile>>]
    /\ state' = [state EXCEPT ![p] = load_state(stateFile)]
    /\ clock' = clock + 1
    /\ FORCE_RESET' = [FORCE_RESET EXCEPT ![p] = FALSE]
    /\ seen_ids' = [seen_ids EXCEPT ![p] = load_state(stateFile).seen_ids]
    /\ seen0' = [seen0 EXCEPT ![p] = load_state(stateFile).seen_ids]
    /\ file0' = [file0 EXCEPT ![p] = stateFile]
    /\ normativos' = [normativos EXCEPT ![p] = <<>>]
    /\ novos' = [novos EXCEPT ![p] = <<>>]
    /\ primary' = [primary EXCEPT ![p] = <<>>]
    /\ examined' = [examined EXCEPT ![p] = 0]
    /\ probeErrs' = [probeErrs EXCEPT ![p] = {}]
    /\ done' = [done EXCEPT ![p] = 0]
    /\ texto' = [texto EXCEPT ![p] = ""]
    /\ contexto' = [contexto EXCEPT ![p] = ""]
    /\ trace' = [trace EXCEPT ![p] = <<Event("load_state", NoId, TRUE)>>]
    /\ pc' = [pc EXCEPT ![p] = "fetch"]
    /\ overlapped' = (overlapped \/ \E q \in Procs \ { p } : pc[q] \notin Idle)
    /\ UNCHANGED <<stateFile, published, prevFailed, msgVars, fetchVars>>

\* run(), lines 262-268 and 274-277 with FORCE_RESET true: no state, no fetch
BeginForced(p) ==
    /\ pc[p] \in Idle
    /\ clock <= MaxRuns
    /\ reads' = [reads EXCEPT ![p] = <<>>]
    /\ state' = [state EXCEPT ![p] = load_state(NoFile)]
    /\ clock' = clock + 1
    /\ FORCE_RESET' = [FORCE_RESET EXCEPT ![p] = TRUE]
    /\ seen_ids' = [seen_ids EXCEPT ![p] = <<>>]
    /\ seen0' = [seen0 EXCEPT ![p] = <<>>]
    /\ file0' = [file0 EXCEPT ![p] = stateFile]
    /\ normativos' = [normativos EXCEPT ![p] = Take(NORMATIVOS_CONHECIDOS, 1)]
    /\ novos' = [novos EXCEPT ![p] = Novos(Take(NORMATIVOS_CONHECIDOS, 1), <<>>)]
    /\ primary' = [primary EXCEPT ![p] = <<>>]
    /\ examined' = [examined EXCEPT ![p] = 0]
    /\ probeErrs' = [probeErrs EXCEPT ![p] = {}]
    /\ done' = [done EXCEPT ![p] = 0]
    /\ texto' = [texto EXCEPT ![p] = ""]
    /\ contexto' = [contexto EXCEPT ![p] = ""]
    /\ trace' = [trace EXCEPT ![p] = <<>>]
    /\ pc' = [pc EXCEPT ![p] =
                IF Novos(Take(NORMATIVOS_CONHECIDOS, 1), <<>>) = <<>>
                THEN "persist" ELSE "extract"]
    /\ overlapped' = (overlapped \/ \E q \in Procs \ { p } : pc[q] \notin Idle)
    /\ UNCHANGED <<stateFile, published, prevFailed, msgVars, fetchVars>>

\* a run that swallows the failure of the listing request and goes on with
\* no items
FetchFailsSwallowed(p) ==
    /\ pc[p] = "fetch"
    /\ trace' = [trace EXCEPT ![p] = Append(@, Event("listing", NoId, FALSE))]
    /\ pc' = [pc EXCEPT ![p] = "persist"]
    /\ UNCHANGED <<stateFile, published, clock, prevFailed, FORCE_RESET, seen_ids,
                   normativos, novos, done, texto, contexto, seen0, file0,
                   primary, examined, probeErrs, msgVars, fetchVars, overlapped, reads, state>>

\* fetch_latest_normativos(): the listing request raises, run() dies with it
FetchFails(p) ==
    /\ pc[p] = "fetch"
    /\ trace' = [trace EXCEPT ![p] = Append(@, Event("listing", NoId, FALSE))]
    /\ pc' = [pc EXCEPT ![p] = "crashed"]
    /\ UNCHANGED <<stateFile, published, clock, prevFailed, FORCE_RESET, seen_ids,
                   normativos, novos, done, texto, contexto, seen0, file0,
                   primary, examined, probeErrs, msgVars, fetchVars, overlapped, reads, state>>

\* run(), lines 272-277: fetch_latest_normativos() returns, novos is computed
FetchReturns(p, rows, errs, sequential) ==
    /\ primary' = [primary EXCEPT ![p] = ListingNormativos(rows)]
    /\ examined' = [examined EXCEPT ![p] = Len(Take(rows, RowLimit))]
    /\ probeErrs' = [probeErrs EXCEPT ![p] = errs]
    /\ normativos' = [normativos EXCEPT ![p] =
                        fetch_latest_normativos(rows, sequential)]
    /\ novos' = [novos EXCEPT ![p] = Novos(normativos'[p], seen_ids[p])]
    /\ trace' = [trace EXCEPT ![p] =
                   @ \o <<Event("listing", NoId, TRUE)>>
                     \o (IF UseFallback(ListingNormativos(rows))
                         THEN <<Event("probe", NoId, TRUE),
                                Event("load_state", NoId, TRUE)>>
                         ELSE <<>>)]
    /\ reads' = [reads EXCEPT ![p] =
                   IF UseFallback(ListingNormativos(rows))
                   THEN Append(@, stateFile) ELSE @]
    /\ pc' = [pc EXCEPT ![p] = IF novos'[p] = <<>> THEN "persist" ELSE "extract"]
    /\ UNCHANGED <<stateFile, published, clock, prevFailed, FORCE_RESET, seen_ids,
                   done, texto, contexto, seen0, file0, msgVars, fetchVars,
                   overlapped, state>>

\* normativos = await fetch_latest_normativos() and lines 274-277.  The
\* requests of the probing that may raise are those to existing pages of the
\* window; they are made only when the listing gave nothing.
FetchOver(p, listings) ==
    /\ pc[p] = "fetch"
    /\ \E errs \in SUBSET (ProbeWindow(load_state(stateFile).seen_ids) \cap published) :
         LET sequential == check_sequential_normativos(stateFile, published, errs)
         IN  \E rows \in listings :
                /\ errs # {} => UseFallback(ListingNormativos(rows))
                /\ UseFallback(ListingNormativos(rows)) => ~load_state_raises(stateFile)
                /\ FetchReturns(p, rows, errs, sequential)

\* an extraction that also starts the extraction of the item after this one
ExtractPrefetching(p, ok) ==
    /\ pc[p] = "extract"
    /\ texto' = [texto EXCEPT ![p] = IF ok THEN "texto" ELSE ""]
    /\ trace' = [trace EXCEPT ![p] =
                   @ \o <<Event("extract", Current(p).id, TRUE)>>
                     \o (IF done[p] + 2 <= Len(novos[p])
                         THEN <<Event("extract",
                                      ProcessingOrder(novos[p])[done[p] + 2].id, TRUE)>>
                         ELSE <<>>)]
    /\ pc' = [pc EXCEPT ![p] = "summarize"]
    /\ UNCHANGED <<stateFile, published, clock, prevFailed, FORCE_RESET, seen_ids,
                   normativos, novos, done, contexto, seen0, file0, primary,
                   examined, probeErrs, msgVars, fetchVars, overlapped, reads, state>>

\* an extraction whose failure raises into run(): the item is given up
ExtractSkipping(p, ok) ==
    /\ pc[p] = "extract"
    /\ texto' = [texto EXCEPT ![p] = IF ok THEN "texto" ELSE ""]
    /\ IF ok
       THEN /\ trace' = [trace EXCEPT ![p] =
                           Append(@, Event("extract", Current(p).id, TRUE))]
            /\ pc' = [pc EXCEPT ![p] = "summarize"]
            /\ UNCHANGED done
       ELSE /\ trace' = [trace EXCEPT ![p] =
                           @ \o <<Event("extract", Current(p).id, FALSE),
                                  Event("log_error", Current(p).id, TRUE)>>]
            /\ done' = [done EXCEPT ![p] = @ + 1]
            /\ pc' = [pc EXCEPT ![p] = AfterItem(p, done[p] + 1)]
    /\ UNCHANGED <<stateFile, published, clock, prevFailed, FORCE_RESET, seen_ids,
                   normativos, novos, contexto, seen0, file0, primary,
                   examined, probeErrs, msgVars, fetchVars, overlapped, reads, state>>

\* texto = await fetch_normativo_texto(url): the text, or "" on any failure
Extract(p, ok) ==
    /\ pc[p] = "extract"
    /\ texto' = [texto EXCEPT ![p] = IF ok THEN "texto" ELSE ""]
    /\ trace' = [trace EXCEPT ![p] = Append(@, Event("extract", Current(p).id, TRUE))]
    /\ pc' = [pc EXCEPT ![p] = "summarize"]
    /\ UNCHANGED <<stateFile, published, clock, prevFailed, FORCE_RESET, seen_ids,
                   normativos, novos, done, contexto, seen0, file0, primary,
                   examined, probeErrs, msgVars, fetchVars, overlapped, reads, state>>

\* contexto of gerar_resumo: the full text, or the ementa when there is none
Contexto(txt) == IF txt # "" THEN "texto" ELSE "ementa"

\* a loop that tries the item again when the summarizer raises
SummarizeRetrying(p, ok) ==
    /\ pc[p] = "summarize"
    /\ IF ok
       THEN /\ trace' = [trace EXCEPT ![p] =
                           Append(@, Event("summarize", Current(p).id, TRUE))]
            /\ contexto' = [contexto EXCEPT ![p] = Contexto(texto[p])]
            /\ pc' = [pc EXCEPT ![p] = "send"]
            /\ UNCHANGED texto
       ELSE /\ trace' = [trace EXCEPT ![p] =
                           @ \o <<Event("summarize", Current(p).id, FALSE),
                                  Event("log_error", Current(p).id, TRUE)>>]
            /\ contexto' = [contexto EXCEPT ![p] = ""]
            /\ texto' = [texto EXCEPT ![p] = ""]
            /\ pc' = [pc EXCEPT ![p] = "extract"]
    /\ UNCHANGED <<stateFile, published, clock, prevFailed, FORCE_RESET, seen_ids,
                   normativos, novos, done, seen0, file0, primary, examined,
                   probeErrs, msgVars, fetchVars, overlapped, reads, state>>

\* resumo = gerar_resumo(normativo, texto): returns, or raises and the item
\* is given up (except Exception, line 289)
Summarize(p, ok) ==
    /\ pc[p] = "summarize"
    /\ IF ok
       THEN /\ trace' = [trace EXCEPT ![p] =
                           Append(@, Event("summarize", Current(p).id, TRUE))]
            /\ contexto' = [contexto EXCEPT ![p] = Contexto(texto[p])]
            /\ pc' = [pc EXCEPT ![p] = "send"]
            /\ UNCHANGED <<done, texto>>
       ELSE /\ trace' = [trace EXCEPT ![p] =
                           @ \o <<Event("summarize", Current(p).id, FALSE),
                                  Event("log_error", Current(p).id, TRUE)>>]
            /\ contexto' = [contexto EXCEPT ![p] = ""]
            /\ texto' = [texto EXCEPT ![p] = ""]
            /\ done' = [done EXCEPT ![p] = @ + 1]
            /\ pc' = [pc EXCEPT ![p] = AfterItem(p, done[p] + 1)]
    /\ UNCHANGED <<stateFile, published, clock, prevFailed, FORCE_RESET, seen_ids,
                   normativos, novos, seen0, file0, primary, examined,
          probeErrs, msgVars, fetchVars, overlapped, reads, state>>

\* seen_ids.append(normativo["id"])
Appended(seen, id) == Append(seen, id)

\* seen_ids of a live run is the list inside its dict state (line 271), so
\* the append of line 286 shows in state["seen_ids"] too; a forced run has
\* its own list (line 266) and no state
Aliased(p, st, seen) ==
    IF FORCE_RESET[p] THEN st ELSE [st EXCEPT !.seen_ids = seen]

\* a loop that saves the state after each append
SendCheckpointing(p, ok) ==
    /\ pc[p] = "send"
    /\ IF ok
       THEN /\ seen_ids' = [seen_ids EXCEPT ![p] = Appended(@, Current(p).id)]
            /\ state' = [state EXCEPT ![p] = Aliased(p, @, seen_ids'[p])]
            /\ stateFile' = save_state([seen_ids |-> seen_ids'[p],
                                         last_check |-> [second |-> clock,
                                                         microsecond |-> 1]])
            /\ trace' = [trace EXCEPT ![p] =
                           @ \o <<Event("send", Current(p).id, TRUE),
                                  Event("append", Current(p).id, TRUE),
                                  Event("save_state", NoId, TRUE)>>]
       ELSE /\ trace' = [trace EXCEPT ![p] =
                           @ \o <<Event("send", Current(p).id, FALSE),
                                  Event("log_error", Current(p).id, TRUE)>>]
            /\ UNCHANGED <<seen_ids, stateFile, state>>
    /\ contexto' = [contexto EXCEPT ![p] = ""]
    /\ texto' = [texto EXCEPT ![p] = ""]
    /\ done' = [done EXCEPT ![p] = @ + 1]
    /\ pc' = [pc EXCEPT ![p] = AfterItem(p, done[p] + 1)]
    /\ UNCHANGED <<published, clock, prevFailed, FORCE_RESET,
                   normativos, novos, seen0, file0, primary, examined,
                   probeErrs, msgVars, fetchVars, overlapped, reads>>

\* a loop that records the id before it knows the notification went out
SendRecordingFirst(p, ok) ==
    /\ pc[p] = "send"
    /\ seen_ids' = [seen_ids EXCEPT ![p] = Appended(@, Current(p).id)]
    /\ state' = [state EXCEPT ![p] = Aliased(p, @, seen_ids'[p])]
    /\ trace' = [trace EXCEPT ![p] =
                   IF ok THEN @ \o <<Event("append", Current(p).id, TRUE),
                                     Event("send", Current(p).id, TRUE)>>
                         ELSE @ \o <<Event("append", Current(p).id, TRUE),
                                     Event("send", Current(p).id, FALSE),
                                     Event("log_error", Current(p).id, TRUE)>>]
    /\ contexto' = [contexto EXCEPT ![p] = ""]
    /\ texto' = [texto EXCEPT ![p] = ""]
    /\ done' = [done EXCEPT ![p] = @ + 1]
    /\ pc' = [pc EXCEPT ![p] = AfterItem(p, done[p] + 1)]
    /\ UNCHANGED <<stateFile, published, clock, prevFailed, FORCE_RESET,
                   normativos, novos, seen0, file0, primary, examined,
                   probeErrs, msgVars, fetchVars, overlapped, reads>>

\* enviar_whatsapp(montar_mensagem(normativo, resumo)) and what follows it:
\* the id is appended when the call returns, the item is given up when it raises
Send(p, ok) ==
    /\ pc[p] = "send"
    /\ IF ok
       THEN /\ seen_ids' = [seen_ids EXCEPT ![p] = Appended(@, Current(p).id)]
            /\ state' = [state EXCEPT ![p] = Aliased(p, @, seen_ids'[p])]
            /\ trace' = [trace EXCEPT ![p] =
                           @ \o <<Event("send", Current(p).id, TRUE),
                                  Event("append", Current(p).id, TRUE)>>]
       ELSE /\ trace' = [trace EXCEPT ![p] =
                           @ \o <<Event("send", Current(p).id, FALSE),
                                  Event("log_error", Current(p).id, TRUE)>>]
            /\ UNCHANGED <<seen_ids, state>>
    /\ contexto' = [contexto EXCEPT ![p] = ""]
    /\ texto' = [texto EXCEPT ![p] = ""]
    /\ done' = [done EXCEPT ![p] = @ + 1]
    /\ pc' = [pc EXCEPT ![p] = AfterItem(p, done[p] + 1)]
    /\ UNCHANGED <<stateFile, published, clock, prevFailed, FORCE_RESET,
                   normativos, novos, seen0, file0, primary, examined,
                   probeErrs, msgVars, fetchVars, overlapped, reads>>

\* datetime.now(timezone.utc), line 295: the second of the clock, on a whole
\* second or not
Now == { [second |-> clock, microsecond |-> m] : m \in { 0, 1 } }

\* a persist that keeps the ids state.json holds and adds the run's own
PersistedStateMerged(file, seen, now) ==
    [load_state(file) EXCEPT
        !.seen_ids = Truncated(load_state(file).seen_ids
                               \o SelectSeq(seen, LAMBDA id :
                                                ~InSeq(id, load_state(file).seen_ids))),
        !.last_check = now]

\* lines 293-295: the state that save_state is given
PersistedState(file, seen, now) ==
    [load_state(file) EXCEPT !.seen_ids = Truncated(seen), !.last_check = now]

\* run(), lines 292-298 with FORCE_RESET false
Persist(p) ==
    /\ pc[p] = "persist"
    /\ ~FORCE_RESET[p]
    /\ ~load_state_raises(stateFile)
    /\ reads' = [reads EXCEPT ![p] = Append(@, stateFile)]
    /\ \E now \in Now :
          state' = [state EXCEPT ![p] = PersistedState(stateFile, seen_ids[p], now)]
    /\ stateFile' = save_state(state'[p])
    /\ trace' = [trace EXCEPT ![p] =
                   @ \o <<Event("load_state", NoId, TRUE),
                          Event("save_state", NoId, TRUE)>>]
    /\ prevFailed' = [ids |-> FailedIds(trace[p]), probed |-> UseFallback(primary[p])]
    /\ pc' = [pc EXCEPT ![p] = "done"]
    /\ UNCHANGED <<published, clock, FORCE_RESET, seen_ids, normativos, novos,
                   done, texto, contexto, seen0, file0, primary, examined,
                   probeErrs, msgVars, fetchVars, overlapped>>

\* a forced run that saves its history all the same
SkipPersistSaving(p) ==
    /\ pc[p] = "persist"
    /\ FORCE_RESET[p]
    /\ \E now \in Now :
          stateFile' = save_state(PersistedState(stateFile, seen_ids[p], now))
    /\ trace' = [trace EXCEPT ![p] =
                   @ \o <<Event("load_state", NoId, TRUE),
                          Event("save_state", NoId, TRUE)>>]
    /\ pc' = [pc EXCEPT ![p] = "done"]
    /\ UNCHANGED <<published, clock, prevFailed, FORCE_RESET, seen_ids, normativos,
                   novos, done, texto, contexto, seen0, file0, primary, examined,
                   probeErrs, msgVars, fetchVars, overlapped, reads, state>>

\* run(), lines 292 and 298 with FORCE_RESET true: nothing is saved
SkipPersist(p) ==
    /\ pc[p] = "persist"
    /\ FORCE_RESET[p]
    /\ pc' = [pc EXCEPT ![p] = "done"]
    /\ UNCHANGED <<stateFile, published, clock, prevFailed, FORCE_RESET, seen_ids,
                   normativos, novos, done, texto, contexto, seen0, file0,
                   primary, examined, probeErrs, trace, msgVars, fetchVars, overlapped, reads, state>>

\* the host scheduler starts one run at a time
Scheduled == { 1 }

\* a step of run p, the portal serving one of the listing pages listings
StepOver(p, listings) ==
    \/ BeginLive(p)
    \/ BeginForced(p)
    \/ FetchFails(p)
    \/ FetchOver(p, listings)
    \/ \E ok \in BOOLEAN : Extract(p, ok)
    \/ \E ok \in BOOLEAN : Summarize(p, ok)
    \/ \E ok \in BOOLEAN : Send(p, ok)
    \/ Persist(p)
    \/ SkipPersist(p)

Step(p) == StepOver(p, Listings)

Next == \E p \in Scheduled : Step(p)

Spec == Init /\ [][Next]_vars

\* the listing pages that write every number without leading zeros
PlainListings ==
    { rows \in Listings :
        \A i \in 1..Len(rows) :
            RowNumero(rows[i]) = <<>> \/ Head(RowNumero(rows[i])) # 0 }

\* a step of a run that has started: its pending call returns or raises
RunStep(p) ==
    \/ FetchFails(p)
    \/ FetchOver(p, PlainListings)
    \/ \E ok \in BOOLEAN : Extract(p, ok)
    \/ \E ok \in BOOLEAN : Summarize(p, ok)
    \/ \E ok \in BOOLEAN : Send(p, ok)
    \/ Persist(p)
    \/ SkipPersist(p)

NextLive == \E p \in Scheduled : StepOver(p, PlainListings)

\* every call of a started run returns or raises, and run() goes on
SpecLive == Init /\ [][NextLive]_vars /\ \A p \in Scheduled : WF_vars(RunStep(p))

----------------------------------------------------------------------------
(* Overlapping runs: nothing in monitor.py keeps the scheduler from starting *)
(* a run while another is running; the two share state.json only.            *)

\* the pages of the portal under the overlapping runs
OverlapPages == { 430 }

\* the live runs start with no state.json
InitOverlap == InitOver(NoFile, OverlapPages)

\* the listing pages served while runs overlap
OverlapListings == PlainListings

\* the size of last_check in the text: null, or isoformat() between quotes,
\* 32 characters, 25 when the microsecond is 0 and isoformat() leaves it out
LastCheckLen(last_check) ==
    IF last_check = None THEN 4
    ELSE IF last_check.microsecond = 0 THEN 27 ELSE 34

\* the size of the text save_state writes, json.dumps(state, indent=2): 38
\* characters around an empty list and last_check, 40 around a list that
\* takes, for each id, a line of 8 characters, the 13 of "ResolucaoBCB-" and
\* the digits
JsonLen(st) ==
    LET ids == st.seen_ids
        digits == UNION { { <<i, k>> : k \in 1..Len(ids[i].numero) } :
                            i \in 1..Len(ids) }
    IN  LastCheckLen(st.last_check)
          + (IF ids = <<>> THEN 38 ELSE 40 + 21 * Len(ids) + Cardinality(digits))

\* the size of what state.json holds
FileBytes(file) ==
    IF ~file.exists THEN 0
    ELSE IF file.json THEN JsonLen(load_state(file)) ELSE file.bytes

\* a content of n bytes that does not parse
Unparsable(n) ==
    [exists |-> TRUE, json |-> FALSE, bytes |-> n, seen_ids |-> <<>>,
     last_check |-> None]

\* Path.write_text, line 87, from the opened file on: the text goes to the
\* start of the file over what another process wrote since the file was
\* opened.  A text no shorter replaces it; a shorter one leaves the end of the
\* other text after its own, which does not parse.
write_text(file, st) ==
    IF JsonLen(st) >= FileBytes(file)
    THEN save_state(st)
    ELSE Unparsable(FileBytes(file))

\* run(), line 270, when load_state() raises on a state.json that another
\* process has opened for writing or left unparsable: run() dies with it
BeginLiveRaises(p) ==
    /\ pc[p] \in Idle
    /\ clock <= MaxRuns
    /\ load_state_raises(stateFile)
    /\ reads' = [reads EXCEPT ![p] = <<stateFile>>]
    /\ state' = [state EXCEPT ![p] = load_state(NoFile)]
    /\ clock' = clock + 1
    /\ FORCE_RESET' = [FORCE_RESET EXCEPT ![p] = FALSE]
    /\ seen_ids' = [seen_ids EXCEPT ![p] = <<>>]
    /\ seen0' = [seen0 EXCEPT ![p] = <<>>]
    /\ file0' = [file0 EXCEPT ![p] = stateFile]
    /\ normativos' = [normativos EXCEPT ![p] = <<>>]
    /\ novos' = [novos EXCEPT ![p] = <<>>]
    /\ primary' = [primary EXCEPT ![p] = <<>>]
    /\ examined' = [examined EXCEPT ![p] = 0]
    /\ probeErrs' = [probeErrs EXCEPT ![p] = {}]
    /\ done' = [done EXCEPT ![p] = 0]
    /\ texto' = [texto EXCEPT ![p] = ""]
    /\ contexto' = [contexto EXCEPT ![p] = ""]
    /\ trace' = [trace EXCEPT ![p] = <<Event("load_state", NoId, FALSE)>>]
    /\ pc' = [pc EXCEPT ![p] = "crashed"]
    /\ overlapped' = (overlapped \/ \E q \in Procs \ { p } : pc[q] \notin Idle)
    /\ UNCHANGED <<stateFile, published, prevFailed, msgVars, fetchVars>>

\* fetch_latest_normativos(), lines 133-135 and 141: the listing gave no item
\* and the load_state() of the probing raises; run() dies with it
ProbingRaises(p) ==
    /\ pc[p] = "fetch"
    /\ load_state_raises(stateFile)
    /\ \E rows \in Listings :
          /\ UseFallback(ListingNormativos(rows))
          /\ primary' = [primary EXCEPT ![p] = ListingNormativos(rows)]
          /\ examined' = [examined EXCEPT ![p] = Len(Take(rows, RowLimit))]
    /\ reads' = [reads EXCEPT ![p] = Append(@, stateFile)]
    /\ trace' = [trace EXCEPT ![p] =
                   @ \o <<Event("listing", NoId, TRUE),
                          Event("probe", NoId, FALSE),
                          Event("load_state", NoId, FALSE)>>]
    /\ pc' = [pc EXCEPT ![p] = "crashed"]
    /\ UNCHANGED <<stateFile, published, clock, prevFailed, FORCE_RESET, seen_ids,
                   normativos, novos, done, texto, contexto, seen0, file0,
                   probeErrs, msgVars, fetchVars, overlapped, state>>

\* run(), lines 293-295: state = load_state(), and its two keys are set
PersistLoad(p) ==
    /\ pc[p] = "persist"
    /\ ~FORCE_RESET[p]
    /\ ~load_state_raises(stateFile)
    /\ reads' = [reads EXCEPT ![p] = Append(@, stateFile)]
    /\ \E now \in Now :
          state' = [state EXCEPT ![p] = PersistedState(stateFile, seen_ids[p], now)]
    /\ trace' = [trace EXCEPT ![p] = Append(@, Event("load_state", NoId, TRUE))]
    /\ pc' = [pc EXCEPT ![p] = "save"]
    /\ UNCHANGED <<stateFile, published, clock, prevFailed, FORCE_RESET, seen_ids,
                   normativos, novos, done, texto, contexto, seen0, file0,
                   primary, examined, probeErrs, msgVars, fetchVars, overlapped>>

\* run(), line 293, when load_state() raises: run() dies after its
\* notifications went out, and saves nothing
PersistLoadRaises(p) ==
    /\ pc[p] = "persist"
    /\ ~FORCE_RESET[p]
    /\ load_state_raises(stateFile)
    /\ reads' = [reads EXCEPT ![p] = Append(@, stateFile)]
    /\ trace' = [trace EXCEPT ![p] = Append(@, Event("load_state", NoId, FALSE))]
    /\ pc' = [pc EXCEPT ![p] = "crashed"]
    /\ UNCHANGED <<stateFile, published, clock, prevFailed, FORCE_RESET, seen_ids,
                   normativos, novos, done, texto, contexto, seen0, file0,
                   primary, examined, probeErrs, msgVars, fetchVars, overlapped, state>>

\* save_state(), line 87: Path.write_text opens state.json for writing, which
\* empties it
PersistOpen(p) ==
    /\ pc[p] = "save"
    /\ stateFile' = Unparsable(0)
    /\ pc' = [pc EXCEPT ![p] = "write"]
    /\ UNCHANGED <<published, clock, prevFailed, FORCE_RESET, seen_ids, normativos,
                   novos, done, texto, contexto, seen0, file0, primary, examined,
                   probeErrs, trace, msgVars, fetchVars, overlapped, reads, state>>

\* save_state(), line 87, and line 298: the text of the state built at lines
\* 293-295 is written
PersistWrite(p) ==
    /\ pc[p] = "write"
    /\ stateFile' = write_text(stateFile, state[p])
    /\ trace' = [trace EXCEPT ![p] = Append(@, Event("save_state", NoId, TRUE))]
    /\ prevFailed' = [ids |-> FailedIds(trace[p]), probed |-> UseFallback(primary[p])]
    /\ pc' = [pc EXCEPT ![p] = "done"]
    /\ UNCHANGED <<published, clock, FORCE_RESET, seen_ids, normativos, novos,
                   done, texto, contexto, seen0, file0, primary, examined,
                   probeErrs, msgVars, fetchVars, overlapped, reads, state>>

\* a step of a live run of either process, each access to state.json a step
\* of its own; the scheduler uses the processes in the order of their numbers
LiveStep(p) ==
    \/ /\ \A q \in Procs : q < p => pc[q] # "idle"
       /\ BeginLive(p) \/ BeginLiveRaises(p)
    \/ FetchFails(p)
    \/ FetchOver(p, OverlapListings)
    \/ ProbingRaises(p)
    \/ \E ok \in BOOLEAN : Extract(p, ok)
    \/ \E ok \in BOOLEAN : Summarize(p, ok)
    \/ \E ok \in BOOLEAN : Send(p, ok)
    \/ PersistLoad(p)
    \/ PersistLoadRaises(p)
    \/ PersistOpen(p)
    \/ PersistWrite(p)

NextOverlap == \E p \in Procs : LiveStep(p)

SpecOverlap == InitOverlap /\ [][NextOverlap]_vars

----------------------------------------------------------------------------
(* The text of the messages.  A text is the sequence of its code points.     *)
(* The runs above do not carry the text of their messages; montar_mensagem   *)
(* and enviar_whatsapp are modelled here on texts of every length around the *)
(* limit.                                                                    *)

\* the character of a digit
DigitChar(d) == 48 + d

Chars(numero) == [i \in 1..Len(numero) |-> DigitChar(numero[i])]

\* montar_mensagem(normativo, resumo): the f-string of lines 249-257
montar_mensagem(tipo, numero, titulo, data_publicacao, resumo) ==
    <<127974, 32, 42, 78, 111, 118, 97, 32, 78, 111, 114, 109, 97, 116, 105, 118,
      97, 32, 66, 67, 66, 32, 8212, 32, 80, 105, 120, 42, 10, 10, 128196, 32, 42>>
    \o tipo \o <<32, 110, 186, 32>> \o Chars(numero) \o <<42, 10, 95>>
    \o Take(titulo, MaxTitulo)
    \o <<95, 10, 128197, 32, 80, 117, 98, 108, 105, 99, 97, 100, 97, 32, 101, 109,
         58, 32>>
    \o data_publicacao \o <<10, 10>> \o resumo \o <<10, 10>>

\* a truncation that keeps the end of the message
BodyOfLast(m) == LastN(m, MaxBody)

\* mensagem = mensagem[:1500]: the body enviar_whatsapp gives to Twilio
BodyOf(m) == Take(m, MaxBody)

\* "Resolução BCB"
TipoResolucao == <<82, 101, 115, 111, 108, 117, 231, 227, 111, 32, 66, 67, 66>>

\* a text of n letters, starting with the k-th letter of the alphabet
Text(n, k) == SubSeq([i \in 1..n |-> 97 + ((i + k) % 26)], 1, n)

\* titles shorter than, as long as and longer than the 100 characters kept
Titulos == { Text(n, 0) : n \in { 0, MaxTitulo, MaxTitulo + 1 } }

\* "" and "2024-08-02"
Datas == { <<>>, <<50, 48, 50, 52, 45, 48, 56, 45, 48, 50>> }

\* the length of the message around an empty summary
EnvelopeLen(titulo, data_publicacao) ==
    Len(montar_mensagem(TipoResolucao, <<4, 0, 7>>, titulo, data_publicacao, <<>>))

\* summaries: the empty one, and those that bring the message to within
\* Margin characters of the limit, below and above it
Resumos(titulo, data_publicacao) ==
    { <<>> }
    \cup { Text(MaxBody - EnvelopeLen(titulo, data_publicacao) + d, 7) :
             d \in (0 - Margin)..Margin }

\* mensagem = montar_mensagem(normativo, resumo), line 284
MontarMensagem(titulo, data_publicacao, resumo) ==
    /\ msgpc = "montar"
    /\ mensagem' = montar_mensagem(TipoResolucao, <<4, 0, 7>>, titulo,
                                   data_publicacao, resumo)
    /\ msgpc' = "enviar"
    /\ UNCHANGED <<body, runVars, fetchVars>>

\* enviar_whatsapp(mensagem), line 285
EnviarWhatsapp ==
    /\ msgpc = "enviar"
    /\ body' = BodyOf(mensagem)
    /\ msgpc' = "montar"
    /\ UNCHANGED <<mensagem, runVars, fetchVars>>

NextMsg ==
    \/ \E titulo \in Titulos, data_publicacao \in Datas :
          \E resumo \in Resumos(titulo, data_publicacao) :
             MontarMensagem(titulo, data_publicacao, resumo)
    \/ EnviarWhatsapp

SpecMsg == Init /\ [][NextMsg]_vars

----------------------------------------------------------------------------
(* One call of fetch_latest_normativos(), on listing pages up to a few rows  *)
(* longer than the rows the code looks at, over state files whose ids end    *)
(* with digits or not, and portals with pages inside and outside the window. *)

\* row i of a page of some kind: number 600 + i in the href, in the link
\* text, in every other row, or in no row
PageRow(kind, i) ==
    CASE kind = "href" -> LinkRow(StrOf(600 + i), <<>>)
      [] kind = "texto" -> LinkRow(<<>>, StrOf(600 + i))
      [] kind = "mixed" -> IF i % 2 = 0 THEN NoLinkRow
                                       ELSE LinkRow(StrOf(600 + i), <<>>)
      [] OTHER -> LinkRow(<<>>, <<>>)

PageKinds == { "href", "texto", "mixed", "none" }

LongListings ==
    { [i \in 1..n |-> PageRow(kind, i)] :
        n \in 0..(RowLimit + ExtraRows), kind \in PageKinds }

\* the seen_ids of the state files, as runs leave them: none, one, numbers
\* out of order (the listing is processed oldest first, the probing newest
\* first), a number captured with a leading zero, an id recorded twice
FetchSeen ==
    { <<>>,
      <<IdOf(<<4, 3, 0>>)>>,
      <<IdOf(<<4, 3, 2>>), IdOf(<<4, 3, 0>>)>>,
      <<IdOf(<<0, 4, 3, 1>>), IdOf(<<7>>)>>,
      <<IdOf(<<4, 3, 1>>), IdOf(<<4, 3, 1>>)>>,
      <<IdOf(<<5, 0, 1>>), IdOf(<<4, 3, 2>>), IdOf(<<6, 0, 1>>)>> }

FetchFiles ==
    { NoFile }
    \cup { save_state([seen_ids |-> ids,
                        last_check |-> [second |-> 1, microsecond |-> 1]]) :
             ids \in FetchSeen }

\* the detail pages of the portal around the number u
PagesAround(u) ==
    { {}, { u + 1 }, { u + ProbeCount }, { u + ProbeCount + 1 }, { u, u + 2, u + 3 },
      (u - 1)..(u + ProbeCount + 1) }

\* normativos = await fetch_latest_normativos(), the listing request
\* succeeding; one call in a behaviour
FetchLatest(rows, file, pages, errs) ==
    /\ ~fetchOut.called
    /\ fetchIn' = [rows |-> rows, file |-> file, pages |-> pages, errs |-> errs]
    /\ LET fallback == UseFallback(ListingNormativos(rows))
       IN  fetchOut' =
             [called |-> TRUE,
              normativos |-> fetch_latest_normativos(
                                 rows, check_sequential_normativos(file, pages, errs)),
              examined |-> Len(Take(rows, RowLimit)),
              fallback |-> fallback,
              heads |-> IF fallback
                        THEN ProbedNumeros(load_state(file).seen_ids) ELSE <<>>]
    /\ UNCHANGED <<runVars, msgVars>>

\* long pages are fetched over the absent state file, the pages of at most
\* one row over every state file and with requests that raise
NextFetch ==
    \E rows \in LongListings, file \in FetchFiles :
        /\ Len(rows) <= 1 \/ file = NoFile
        /\ \E pages \in PagesAround(UltimoNumero(load_state(file).seen_ids)) :
              \E errs \in { {} } \cup { { n } : n \in IF Len(rows) <= 1 THEN pages ELSE {} } :
                  FetchLatest(rows, file, pages, errs)

\* the call is given its state file: the runs' own state.json plays no part
InitFetch == Init /\ stateFile = NoFile

SpecFetch == InitFetch /\ [][NextFetch]_vars

----------------------------------------------------------------------------
(* Reading a run's trace *)

\* the ids of the events of kind op, in the order of the calls
IdsOf(tr, op) == Ids(SelectSeq(tr, LAMBDA e : e.op = op))

\* the ids of the events of kind op that returned
IdsOk(tr, op) == Ids(SelectSeq(tr, LAMBDA e : e.op = op /\ e.ok))

Has(tr, op) == \E i \in 1..Len(tr) : tr[i].op = op

Count(tr, op) == Len(SelectSeq(tr, LAMBDA e : e.op = op))

ItemOps == { "extract", "summarize", "send", "append" }

\* some call about the item id was made
Touched(tr, id) == \E i \in 1..Len(tr) : tr[i].op \in ItemOps /\ tr[i].id = id

\* a live run of p is past its fetch
\* (a forced run is past it from its start; a live run that died is past it
\* when it died on the load_state() of line 293)
Fetched(p) ==
    \/ pc[p] \in { "extract", "summarize", "send", "persist", "save", "write", "done" }
    \/ /\ pc[p] = "crashed"
       /\ \E i \in 1..Len(trace[p]) : trace[p][i].op = "listing" /\ trace[p][i].ok
       /\ \A i \in 1..Len(trace[p]) : trace[p][i].op = "probe" => trace[p][i].ok

LiveRun(p) == ~FORCE_RESET[p] /\ Fetched(p)

LiveDone(p) == ~FORCE_RESET[p] /\ pc[p] = "done"

Positions(s, x) == { i \in 1..Len(s) : s[i] = x }

\* how many entries the final truncation drops from what the run holds
Dropped(p) ==
    IF Len(seen_ids[p]) > MaxSeen THEN Len(seen_ids[p]) - MaxSeen ELSE 0

----------------------------------------------------------------------------
(* C1: idempotent dedup *)

\* C1 as stated: an item whose id was in the loaded seen_ids and that the
\* fetcher returns again is not notified, and once the run has persisted the
\* id sits in seen_ids as many times as before: it was neither added nor
\* removed.
C1_Original ==
    \A p \in Procs : LiveRun(p) =>
        \A i \in 1..Len(normativos[p]) :
            InSeq(normativos[p][i].id, seen0[p]) =>
                /\ ~Touched(trace[p], normativos[p][i].id)
                /\ pc[p] = "done" =>
                     Cardinality(Positions(stateFile.seen_ids, normativos[p][i].id))
                       = Cardinality(Positions(seen0[p], normativos[p][i].id))

\* C1 amended: an item whose id was in the loaded seen_ids and that the fetcher
\* returns again is never extracted, summarised, notified or appended, and the
\* entries of its id in the persisted seen_ids are exactly its loaded entries
\* that the truncation to the last 500 keeps, at their place counted from the
\* end of the loaded list plus what the run appended.
C1_SeenItemOnlyAgesOut ==
    \A p \in Procs : LiveRun(p) =>
        \A i \in 1..Len(normativos[p]) :
            InSeq(normativos[p][i].id, seen0[p]) =>
                /\ ~Touched(trace[p], normativos[p][i].id)
                /\ pc[p] = "done" =>
                     Positions(stateFile.seen_ids, normativos[p][i].id)
                       = { k - Dropped(p) :
                             k \in { j \in Positions(seen0[p], normativos[p][i].id) :
                                       j > Dropped(p) } }

\* a finished live run whose fetcher returned an already seen item together
\* with a new one that was notified, so that the oldest entry was dropped
C1_Witness ==
    \E p \in Procs :
        /\ LiveDone(p)
        /\ \E i \in 1..Len(normativos[p]) : InSeq(normativos[p][i].id, seen0[p])
        /\ IdsOk(trace[p], "send") # <<>>
        /\ Dropped(p) > 0

----------------------------------------------------------------------------
(* C2: partial-failure isolation *)

\* how each attempt of the run ended, in order: the id was appended, or the
\* exception was logged
Outcomes(tr) == SelectSeq(tr, LAMBDA e : e.op \in { "append", "log_error" })

\* C2 as stated: when a live run has finished, every new item was attempted;
\* every item whose summarisation or notification did not raise was notified
\* and its id is in the persisted seen_ids, and the id of every item whose
\* summarisation or notification raised is not in the persisted seen_ids.
C2_Claim ==
    \A p \in Procs : LiveDone(p) =>
        /\ Len(Outcomes(trace[p])) = Len(novos[p])
        /\ \A k \in 1..Len(Outcomes(trace[p])) :
              IF Outcomes(trace[p])[k].op = "append"
              THEN /\ InSeq(Outcomes(trace[p])[k].id, IdsOk(trace[p], "send"))
                   /\ InSeq(Outcomes(trace[p])[k].id, stateFile.seen_ids)
              ELSE ~InSeq(Outcomes(trace[p])[k].id, stateFile.seen_ids)

----------------------------------------------------------------------------
(* C3: cross-run retry *)

Number(id) == IntOf(id.numero)

\* the source still publishes id to the strategy the run of p used: the
\* listing shows it, or (the last run having probed too) its page exists and
\* the requests to it do not raise
StillPublished(p, id) ==
    IF UseFallback(primary[p])
    THEN prevFailed.probed /\ Number(id) \in published \ probeErrs[p]
    ELSE InSeq(id, Ids(primary[p]))

\* C3 as stated: an item that failed in the last live run, is not in seen_ids
\* and is still published is a new item of the next live run.
C3_Claim ==
    \A p \in Procs :
        (~FORCE_RESET[p] /\ pc[p] \in { "extract", "summarize", "send", "persist" }) =>
            \A id \in prevFailed.ids :
                (~InSeq(id, seen0[p]) /\ StillPublished(p, id)) =>
                    InSeq(id, Ids(novos[p]))

----------------------------------------------------------------------------
(* C4: order of processing *)

\* the normativos are listed newest first
NewestFirst(items) ==
    \A i, j \in 1..Len(items) : i < j => IntOf(items[i].numero) > IntOf(items[j].numero)

\* places of the fetched list that hold a new item
NewPlaces(p) == { i \in 1..Len(normativos[p]) : ~InSeq(normativos[p][i].id, seen0[p]) }

\* the new place with k - 1 new places after it
KthFromLast(p, k) ==
    CHOOSE i \in NewPlaces(p) : Cardinality({ j \in NewPlaces(p) : j > i }) = k - 1

\* C4: the k-th item a run processes is the k-th new item counted from the end
\* of what the fetcher returned, and when the fetcher returned the items
\* newest first the notifications go out in increasing number.
C4_ReverseOfFetchOrder ==
    \A p \in Procs : Fetched(p) =>
        /\ Len(IdsOf(trace[p], "extract")) <= Cardinality(NewPlaces(p))
        /\ \A k \in 1..Len(IdsOf(trace[p], "extract")) :
              IdsOf(trace[p], "extract")[k] = normativos[p][KthFromLast(p, k)].id
        /\ NewestFirst(normativos[p]) =>
              \A i, j \in 1..Len(IdsOf(trace[p], "send")) :
                  i < j => Number(IdsOf(trace[p], "send")[i])
                             < Number(IdsOf(trace[p], "send")[j])

\* a finished run that was given two new items newest first and notified both
C4_Witness ==
    \E p \in Procs :
        /\ pc[p] = "done"
        /\ Len(normativos[p]) >= 2
        /\ NewestFirst(normativos[p])
        /\ Len(IdsOk(trace[p], "send")) >= 2

----------------------------------------------------------------------------
(* C5: chronological delivery *)

\* C5 as stated: whatever the strategy (the listing being newest first when it
\* is the one used), of two notified items the one with the lower number is
\* notified first.
C5_Claim ==
    \A p \in Procs :
        (Fetched(p) /\ (~UseFallback(primary[p]) => NewestFirst(primary[p]))) =>
            \A i, j \in 1..Len(IdsOk(trace[p], "send")) :
                i < j => Number(IdsOk(trace[p], "send")[i])
                           <= Number(IdsOk(trace[p], "send")[j])

----------------------------------------------------------------------------
(* C6: bounded history *)

\* what the run held before truncating: the loaded ids, then those it appended
Held(p) == seen0[p] \o IdsOf(trace[p], "append")

\* C6: state.json never holds more than 500 ids, and when a live run has
\* finished it holds the last min(n, 500) of the n ids made of the loaded list
\* followed by the ids appended in the run, in that order.
C6_BoundedHistory ==
    /\ Len(stateFile.seen_ids) <= MaxSeen
    /\ \A p \in Procs : LiveDone(p) =>
          /\ Len(stateFile.seen_ids)
               = (IF Len(Held(p)) < MaxSeen THEN Len(Held(p)) ELSE MaxSeen)
          /\ \A i \in 1..Len(stateFile.seen_ids) :
                stateFile.seen_ids[i]
                  = Held(p)[Len(Held(p)) - Len(stateFile.seen_ids) + i]

\* a finished live run that held more than 500 ids
C6_Witness ==
    \E p \in Procs : LiveDone(p) /\ Len(Held(p)) > MaxSeen

----------------------------------------------------------------------------
(* C7: dry-run purity *)

StateOps == { "load_state", "save_state" }

FetchOps == { "listing", "probe" }

\* C7: a run started with FORCE_RESET never reads or writes state.json, which
\* stays as it was when the run started, never calls the fetcher, takes its
\* candidates from NORMATIVOS_CONHECIDOS and treats all of them as new; when it
\* has finished, each of them has been attempted.
C7_DryRunPurity ==
    \A p \in Procs : (FORCE_RESET[p] /\ pc[p] # "idle") =>
        /\ stateFile = file0[p]
        /\ \A i \in 1..Len(trace[p]) : trace[p][i].op \notin StateOps \cup FetchOps
        /\ normativos[p] # <<>>
        /\ \A i \in 1..Len(normativos[p]) : InSeq(normativos[p][i], NORMATIVOS_CONHECIDOS)
        /\ novos[p] = normativos[p]
        /\ pc[p] = "done" => IdsOf(trace[p], "send") \o IdsOf(trace[p], "log_error")
                               # <<>>

\* a finished dry run that notified a known item whose id state.json holds
C7_Witness ==
    \E p \in Procs :
        /\ FORCE_RESET[p]
        /\ pc[p] = "done"
        /\ \E i \in 1..Len(IdsOk(trace[p], "send")) :
              InSeq(IdsOk(trace[p], "send")[i], stateFile.seen_ids)

----------------------------------------------------------------------------
(* C8: fallback trigger *)

\* the numbers the probing of the run of p finds
\* (the probing reads state.json itself, after the load of line 270)
Found(p) ==
    IF Has(trace[p], "probe") /\ Len(reads[p]) >= 2
          /\ ~load_state_raises(reads[p][2])
    THEN (ProbeWindow(load_state(reads[p][2]).seen_ids) \cap published)
            \ probeErrs[p]
    ELSE {}

\* C8: in a live run the probing is invoked exactly when the listing yields no
\* item; the candidates are then one item per number the probing finds, in
\* increasing number; otherwise they are what the listing yields.
C8_FallbackIffPrimaryEmpty ==
    \A p \in Procs : LiveRun(p) =>
        /\ Has(trace[p], "probe") <=> primary[p] = <<>>
        /\ primary[p] # <<>> => normativos[p] = primary[p]
        /\ primary[p] = <<>> =>
              /\ LET found == Found(p)
                 IN  /\ Len(normativos[p]) = Cardinality(found)
                     /\ \A i \in 1..Len(normativos[p]) :
                           /\ IntOf(normativos[p][i].numero) \in found
                           /\ normativos[p][i].id = IdOf(normativos[p][i].numero)
              /\ \A i, j \in 1..Len(normativos[p]) :
                    i < j => IntOf(normativos[p][i].numero)
                               < IntOf(normativos[p][j].numero)

\* a live run whose listing had rows but no item, and whose probing found some
C8_Witness ==
    \E p \in Procs :
        /\ LiveRun(p)
        /\ examined[p] > 0
        /\ primary[p] = <<>>
        /\ Has(trace[p], "probe")
        /\ normativos[p] # <<>>

\* a live run whose listing had skipped rows and still an item: no probing
C8_PartialListing ==
    \E p \in Procs :
        /\ LiveRun(p)
        /\ primary[p] # <<>>
        /\ examined[p] > Len(primary[p])
        /\ ~Has(trace[p], "probe")

----------------------------------------------------------------------------
(* C9: fatal fetch failure *)

ListingFailed(tr) == \E i \in 1..Len(tr) : tr[i].op = "listing" /\ ~tr[i].ok

\* C9: once the listing request of a run has failed the run is dead: it has
\* no candidates, has extracted, summarised, notified and appended nothing,
\* has not saved, and state.json is as it was when the run started.
C9_FetchFailureAborts ==
    \A p \in Procs : ListingFailed(trace[p]) =>
        /\ pc[p] = "crashed"
        /\ normativos[p] = <<>>
        /\ \A i \in 1..Len(trace[p]) :
              trace[p][i].op \notin ItemOps \cup { "save_state", "probe" }
        /\ stateFile = file0[p]

\* a run that died on the listing request, over a state.json that holds ids
C9_Witness ==
    \E p \in Procs :
        /\ pc[p] = "crashed"
        /\ ListingFailed(trace[p])
        /\ stateFile.exists
        /\ stateFile.seen_ids # <<>>

----------------------------------------------------------------------------
(* C10: message truncation *)

\* C10: once a composed message has been given to enviar_whatsapp, the body
\* Twilio got is the message's first min(length, 1500) characters: the whole
\* message when it has at most 1500, and exactly 1500, cut from the tail,
\* when it has more.
C10_BodyIsFirst1500 ==
    msgpc = "montar" =>
        /\ Len(body) = (IF Len(mensagem) < MaxBody THEN Len(mensagem) ELSE MaxBody)
        /\ \A i \in 1..Len(body) : body[i] = mensagem[i]

\* a message longer than 1500 characters has been sent
C10_Witness ==
    /\ msgpc = "montar"
    /\ Len(mensagem) > MaxBody
    /\ Len(body) = MaxBody

----------------------------------------------------------------------------
(* C11: id derivation *)

\* C11: two items with the same number (the integer their digits denote,
\* int() as line 147 reads it) have the same id whichever path
\* produced them (the listing, the probing or NORMATIVOS_CONHECIDOS), and an
\* item whose number is that of an id loaded from state.json, whichever
\* strategy recorded it, has that very id and is not among the new items.
C11_Claim ==
    /\ \A k \in 1..Len(NORMATIVOS_CONHECIDOS) :
          NORMATIVOS_CONHECIDOS[k].id = IdOf(NORMATIVOS_CONHECIDOS[k].numero)
    /\ \A p \in Procs :
          \A i \in 1..Len(normativos[p]) :
              /\ \A j \in 1..Len(normativos[p]) :
                    IntOf(normativos[p][j].numero)
                            = IntOf(normativos[p][i].numero)
                        => normativos[p][j].id = normativos[p][i].id
              /\ \A k \in 1..Len(seen0[p]) :
                    IntOf(seen0[p][k].numero)
                            = IntOf(normativos[p][i].numero)
                        => /\ seen0[p][k] = normativos[p][i].id
                           /\ ~InSeq(normativos[p][i], novos[p])

\* number 501 was probed, notified and recorded by the run before; this run's
\* listing writes it 0501, and the run has notified it again under another id
\* that it is about to persist next to the first
C11_NotifiedAgain ==
    \E p \in Procs :
        /\ LiveRun(p)
        /\ pc[p] = "persist"
        /\ ~UseFallback(primary[p])
        /\ prevFailed.probed
        /\ InSeq(IdOf(<<5, 0, 1>>), seen0[p])
        /\ InSeq(IdOf(<<0, 5, 0, 1>>), IdsOk(trace[p], "send"))
        /\ InSeq(IdOf(<<0, 5, 0, 1>>), seen_ids[p])

----------------------------------------------------------------------------
(* C12: bounded fetch *)

\* C12: a call of fetch_latest_normativos looks at no more than 20 rows and
\* returns no more than 20 items, whether they come from the listing or from
\* the probing.
C12_AtMost20Items ==
    fetchOut.called =>
        /\ fetchOut.examined <= RowLimit
        /\ Len(fetchOut.normativos) <= RowLimit

\* a call on a page of more than 20 numbered rows returned 20 items
C12_Witness ==
    /\ fetchOut.called
    /\ Len(fetchIn.rows) > RowLimit
    /\ \A i \in 1..Len(fetchIn.rows) : RowNumero(fetchIn.rows[i]) # <<>>
    /\ ~fetchOut.fallback
    /\ Len(fetchOut.normativos) = RowLimit

----------------------------------------------------------------------------
(* C13: extraction failure degrades *)

\* the calls tr ends with
EndsWith(tr, evs) ==
    /\ Len(tr) >= Len(evs)
    /\ SubSeq(tr, Len(tr) - Len(evs) + 1, Len(tr)) = evs

\* C13: the extraction of an item always returns, with the text or with "",
\* and the summarizer comes next for the same item; when the text is "" the
\* summarizer, if it returns, was given the ementa, and the notification, if
\* it returns, is followed by the append of the item's id to seen_ids.
C13_ExtractionDegrades ==
    [][\A p \in Procs :
          /\ (pc[p] = "extract" /\ pc'[p] # "extract") =>
                /\ pc'[p] = "summarize"
                /\ done'[p] = done[p]
                /\ texto'[p] \in { "", "texto" }
                /\ trace'[p] = Append(trace[p], Event("extract", Current(p).id, TRUE))
          /\ (pc[p] = "summarize" /\ texto[p] = "" /\ pc'[p] # "summarize") =>
                \/ /\ pc'[p] = "send"
                   /\ contexto'[p] = "ementa"
                   /\ trace'[p] = Append(trace[p],
                                         Event("summarize", Current(p).id, TRUE))
                \/ /\ EndsWith(trace'[p], <<Event("summarize", Current(p).id, FALSE),
                                             Event("log_error", Current(p).id, TRUE)>>)
                   /\ seen_ids'[p] = seen_ids[p]
          /\ (pc[p] = "send" /\ texto[p] = "" /\ pc'[p] # "send") =>
                /\ contexto[p] = "ementa"
                /\ \/ /\ trace'[p] = trace[p] \o <<Event("send", Current(p).id, TRUE),
                                                   Event("append", Current(p).id, TRUE)>>
                      /\ seen_ids'[p] = Append(seen_ids[p], Current(p).id)
                   \/ /\ trace'[p] = trace[p] \o <<Event("send", Current(p).id, FALSE),
                                                   Event("log_error", Current(p).id, TRUE)>>
                      /\ seen_ids'[p] = seen_ids[p]
      ]_vars

\* an item whose extraction gave "" has been summarized from its ementa and
\* is about to be notified
C13_Witness ==
    \E p \in Procs :
        /\ pc[p] = "send"
        /\ texto[p] = ""
        /\ contexto[p] = "ementa"

----------------------------------------------------------------------------
(* C14: delivery before record *)

\* C14 amended: every append of an id comes right after the notification of
\* that id has returned; the in-memory seen_ids is the loaded list followed by
\* the ids of the notifications that returned, in order, so an attempt that
\* raised at the summarizer or at the notifier added nothing; and when a live
\* run has finished, every id of state.json that was not loaded was notified
\* in the run.
C14_DeliveryBeforeRecord ==
    \A p \in Procs :
        /\ \A i \in 1..Len(trace[p]) :
              trace[p][i].op = "append" =>
                  /\ i > 1
                  /\ trace[p][i - 1] = Event("send", trace[p][i].id, TRUE)
        /\ seen_ids[p] = seen0[p] \o IdsOk(trace[p], "send")
        /\ LiveDone(p) =>
              \A k \in 1..Len(stateFile.seen_ids) :
                  \/ InSeq(stateFile.seen_ids[k], seen0[p])
                  \/ InSeq(stateFile.seen_ids[k], IdsOk(trace[p], "send"))

\* C14 as stated: the above, and seen_ids is left unchanged for an item whose
\* extraction failed: no later step of that item's pipeline appends its id.
C14_Original ==
    /\ []C14_DeliveryBeforeRecord
    /\ [][\A p \in Procs :
            (pc[p] \in { "summarize", "send" } /\ texto[p] = "")
                => seen_ids'[p] = seen_ids[p]]_vars

\* a finished live run in which a notification raised and another returned
C14_Witness ==
    \E p \in Procs :
        /\ LiveDone(p)
        /\ \E i \in 1..Len(trace[p]) : trace[p][i].op = "send" /\ ~trace[p][i].ok
        /\ IdsOk(trace[p], "send") # <<>>
        /\ Len(stateFile.seen_ids) > Len(seen0[p]) - Dropped(p)

----------------------------------------------------------------------------
(* C15: one notification per id per run *)

\* C15 as stated: in a run the notifier is called at most once for any id and
\* no id is appended to seen_ids twice, whatever the fetcher returned.
C15_Claim ==
    \A p \in Procs :
        \A i, j \in 1..Len(trace[p]) :
            (/\ i # j
             /\ trace[p][i].op \in { "send", "append" }
             /\ trace[p][i].op = trace[p][j].op)
                => trace[p][i].id # trace[p][j].id

----------------------------------------------------------------------------
(* C16: strictly sequential processing *)

\* the calls of the loop of run(), in order
LoopCalls(tr) == SelectSeq(tr, LAMBDA e : e.op \in ItemOps \cup { "log_error" })

\* the pipelines of the items never overlap and run in order
Sequential(calls) ==
    \A i \in 1..Len(calls) :
        CASE calls[i].op = "extract" ->
                 i = 1 \/ calls[i - 1].op \in { "append", "log_error" }
          [] calls[i].op = "summarize" ->
                 i > 1 /\ calls[i - 1].op = "extract" /\ calls[i - 1].id = calls[i].id
          [] calls[i].op = "send" ->
                 i > 1 /\ calls[i - 1] = Event("summarize", calls[i].id, TRUE)
          [] calls[i].op = "append" ->
                 i > 1 /\ calls[i - 1] = Event("send", calls[i].id, TRUE)
          [] OTHER ->
                 /\ i > 1
                 /\ calls[i - 1] \in { Event("summarize", calls[i].id, FALSE),
                                       Event("send", calls[i].id, FALSE) }

\* C16: in every run the calls of the loop are, item after item, extract,
\* summarize, notify, append: each call but the first of an item follows the
\* call before it of the same item, an extraction starts only at the start of
\* the loop or after an append or a logged failure, and the items started
\* exceed the items finished by at most one.
C16_StrictlySequential ==
    \A p \in Procs :
        /\ Sequential(LoopCalls(trace[p]))
        /\ Count(trace[p], "extract") - (Count(trace[p], "append")
              + Count(trace[p], "log_error")) = (IF pc[p] \in { "summarize", "send" }
                                                 THEN 1 ELSE 0)
        /\ Count(trace[p], "append") + Count(trace[p], "log_error") = done[p]

\* a finished run of two items: one was given up, one was appended
C16_Witness ==
    \E p \in Procs :
        /\ pc[p] = "done"
        /\ Count(trace[p], "extract") >= 2
        /\ Has(trace[p], "log_error")
        /\ Has(trace[p], "append")

----------------------------------------------------------------------------
(* C17: single persist at run end *)

\* C17: a live run never saves before its loop is over: up to then state.json
\* is as it was when the run started, which is what a run that dies in the
\* loop leaves behind; a live run that has finished has saved exactly once,
\* as its last call and after every call of the loop, and state.json then
\* carries the time of that run as last_check, whether or not there were new
\* items and whether or not any of them was notified.
C17_SinglePersistAtEnd ==
    \A p \in Procs : (~FORCE_RESET[p] /\ pc[p] # "idle") =>
        /\ pc[p] # "done" =>
              /\ Count(trace[p], "save_state") = 0
              /\ stateFile = file0[p]
        /\ pc[p] = "done" =>
              /\ Count(trace[p], "save_state") = 1
              /\ trace[p][Len(trace[p])].op = "save_state"
              /\ Count(trace[p], "extract") = Len(novos[p])
              /\ stateFile.exists
              /\ stateFile.last_check.second = clock
              /\ stateFile.last_check # file0[p].last_check

\* a finished live run all of whose new items failed: state.json has the
\* ids it had and a new last_check
C17_Witness ==
    \E p \in Procs :
        /\ LiveDone(p)
        /\ novos[p] # <<>>
        /\ ~Has(trace[p], "append")
        /\ stateFile.seen_ids = file0[p].seen_ids
        /\ stateFile.last_check # file0[p].last_check

\* a live run in its loop after a notification: nothing has been saved yet
C17_MidBatch ==
    \E p \in Procs :
        /\ ~FORCE_RESET[p]
        /\ pc[p] = "extract"
        /\ Has(trace[p], "append")
        /\ stateFile = file0[p]

----------------------------------------------------------------------------
(* C18: no retry inside a run, termination *)

\* the k-th attempt of a run is for the k-th item of its processing order
OneAttemptEach(p) ==
    /\ Count(trace[p], "extract") <= Len(novos[p])
    /\ \A k \in 1..Count(trace[p], "extract") :
          IdsOf(trace[p], "extract")[k] = ProcessingOrder(novos[p])[k].id
    /\ Count(trace[p], "summarize") <= Count(trace[p], "extract")
    /\ Count(trace[p], "send") <= Count(trace[p], "summarize")
    /\ pc[p] = "done" => Count(trace[p], "extract") = Len(novos[p])

\* C18 as stated: no item is attempted twice, and every started run reaches
\* Done.
C18_Original ==
    /\ [](\A p \in Procs : OneAttemptEach(p))
    /\ \A p \in Scheduled : pc[p] = "fetch" ~> pc[p] = "done"

\* C18: a run never makes more attempts than it has new items, its k-th
\* attempt is for its k-th item whatever the outcomes before, and when it has
\* finished it has attempted each new item once; a run ends without reaching
\* Done only when its listing request raised, which it does before any
\* attempt; every run that has fetched its candidates reaches Done, every
\* started run reaches Done or dies on its listing request.
C18_OnceEachAndTerminates ==
    /\ [](\A p \in Procs : OneAttemptEach(p))
    /\ [](\A p \in Procs : pc[p] = "crashed" =>
              /\ ListingFailed(trace[p])
              /\ Count(trace[p], "extract") = 0)
    /\ \A p \in Scheduled :
          /\ Fetched(p) ~> pc[p] = "done"
          /\ pc[p] = "fetch" ~> pc[p] \in { "done", "crashed" }

\* a finished live run of two new items that both failed: two attempts
C18_Witness ==
    \E p \in Procs :
        /\ LiveDone(p)
        /\ Len(novos[p]) = 2
        /\ Count(trace[p], "extract") = 2
        /\ Count(trace[p], "log_error") = 2

----------------------------------------------------------------------------
(* C19: probing window *)

\* the item numbers recorded in a list of ids: the number ending each id that
\* ends with digits
Recorded(ids) ==
    { IntOf(TrailingDigits(ids[i])) :
        i \in { j \in 1..Len(ids) : TrailingDigits(ids[j]) # <<>> } }

\* the highest of them, the baseline when there is none
Highest(ids) ==
    IF Recorded(ids) = {} THEN BaselineNumero
    ELSE CHOOSE n \in Recorded(ids) : \A m \in Recorded(ids) : m <= n

\* C19: when a fetch falls back to the probing, the numbers requested are
\* max + 1, ..., max + 5 in that order, max being the highest number recorded
\* in the seen_ids of state.json (429 when there is none); the items returned
\* are those of these numbers whose page exists and whose requests did not
\* raise, in increasing number, so at most 5, and none has an id of seen_ids.
\* A fetch that does not fall back requests none.
C19_ProbingWindow ==
    fetchOut.called =>
        IF ~fetchOut.fallback THEN fetchOut.heads = <<>>
        ELSE LET seen == load_state(fetchIn.file).seen_ids
                 max == Highest(seen)
                 found == ((max + 1)..(max + ProbeCount) \cap fetchIn.pages)
                              \ fetchIn.errs
             IN  /\ fetchOut.heads = [i \in 1..ProbeCount |-> max + i]
                 /\ Len(fetchOut.normativos) <= ProbeCount
                 /\ Len(fetchOut.normativos) = Cardinality(found)
                 /\ \A i \in 1..Len(fetchOut.normativos) :
                       /\ IntOf(fetchOut.normativos[i].numero) \in found
                       /\ ~InSeq(fetchOut.normativos[i].id, seen)
                       /\ \A j \in 1..Len(fetchOut.normativos) :
                             i < j => IntOf(fetchOut.normativos[i].numero)
                                        < IntOf(fetchOut.normativos[j].numero)

\* a probing over ids recorded out of order, on a portal with the pages of
\* max, of max + 6 and of all the numbers between: 5 items are returned
C19_Witness ==
    /\ fetchOut.called
    /\ fetchOut.fallback
    /\ Len(fetchIn.file.seen_ids) >= 2
    /\ Highest(fetchIn.file.seen_ids) \in fetchIn.pages
    /\ Highest(fetchIn.file.seen_ids) + ProbeCount + 1 \in fetchIn.pages
    /\ Len(fetchOut.normativos) = ProbeCount

----------------------------------------------------------------------------
(* C20: overlapping runs *)

\* the ids whose notification by the run of p went out
Delivered(p) == { IdsOk(trace[p], "send")[i] : i \in 1..Len(IdsOk(trace[p], "send")) }

\* some id was notified by the runs of two processes
NotifiedTwice == \E p, q \in Procs : p # q /\ Delivered(p) \cap Delivered(q) # {}

\* state.json is at rest: no process is between opening and writing it
AtRest == \A q \in Procs : pc[q] # "write"

\* a finished run recorded an id that state.json, at rest, does not hold
UpdateLost ==
    /\ AtRest
    /\ \E p \in Procs :
          pc[p] = "done" /\ \E id \in Delivered(p) : ~InSeq(id, stateFile.seen_ids)

\* a run died on a load_state() that raised
DiedOnState ==
    \E p \in Procs :
        \E i \in 1..Len(trace[p]) :
            trace[p][i].op = "load_state" /\ ~trace[p][i].ok

\* C20: a run that persists writes the last 500 of its own list, the ids it
\* loaded at its start followed by those it appended, whatever state.json held
\* when it was read at the end of the run, and that is what state.json holds
\* after the write unless the text landed on a longer one written meanwhile,
\* which leaves the file unparsable; and as long as no run was started while
\* another was running, no id is notified by two runs, no id a finished run
\* recorded is missing from state.json, no run dies on reading state.json and
\* the file at rest parses.
C20_OverlapUnguarded ==
    /\ [][\A p \in Procs :
            (pc[p] = "write" /\ pc'[p] = "done") =>
                /\ stateFile'.exists
                /\ stateFile'.json =>
                      stateFile'.seen_ids
                        = LastN(seen0[p] \o IdsOk(trace[p], "send"), MaxSeen)
                /\ ~stateFile'.json => overlapped]_vars
    /\ [](~overlapped =>
            /\ ~NotifiedTwice
            /\ ~UpdateLost
            /\ ~DiedOnState
            /\ AtRest => ~load_state_raises(stateFile))

\* two overlapping runs have finished: both notified the same item, and an id
\* that only one of them recorded is not in the state.json the other wrote
C20_Witness ==
    /\ overlapped
    /\ \A p \in Procs : pc[p] = "done"
    /\ stateFile.json
    /\ NotifiedTwice
    /\ \E p, q \in Procs :
          \E id \in Delivered(p) :
              id \notin Delivered(q) /\ ~InSeq(id, stateFile.seen_ids)

\* a run that overlapped another died on a state.json the other had opened
C20_ReaderDies == overlapped /\ DiedOnState

\* two overlapping writes left a state.json that does not parse
C20_FileUnparsable ==
    /\ \A p \in Procs : pc[p] = "done"
    /\ load_state_raises(stateFile)

====
